---- MODULE Spec2Model ----
(***************************************************************************)
(* A model of the RISE API (src/main.py): the document store with its two  *)
(* collections, "profile" and "task", and the request handlers that read   *)
(* and write it.  Spec runs the handlers one request at a time, each as    *)
(* one atomic step; SpecConc runs two requests at the granularity of the   *)
(* store calls they make, so that their reads and writes interleave.       *)
(***************************************************************************)
EXTENDS Integers, Sequences, FiniteSets, TLC

VARIABLES
    dbAvailable,  \* the module-level handle `db` is not None
    profile,      \* db["profile"]: documents in insertion (natural) order
    task,         \* db["task"]: documents in insertion (natural) order
    response,     \* the last request served (Spec) with the reply it got
    awarded,      \* history: sum of the xp_gain replied by completions that found a profile
    reqs,         \* SpecConc: the handler-local state of each request in flight
    nreq          \* SpecConc: number of requests started

vars == <<dbAvailable, profile, task, response, awarded, reqs, nreq>>

----------------------------------------------------------------------------
(* Bounds of the model *)

MaxTasks == 2          \* documents in the task collection
MaxPlan == 2           \* records in one accept-plan request
MaxLevel == 2          \* highest level a completion may reach
MaxConcRequests == 3   \* requests started under SpecConc

----------------------------------------------------------------------------
(* Values *)

None == "None"

\* An id string that bson.ObjectId() rejects; every other id is the
\* 24-hex rendering of an ObjectId, written as a positive number.
MalformedId == 0

ObjectIdValid(task_id) == task_id # MalformedId

\* the readings of datetime.now(timezone.utc)
Times == {1}

Categories == {"fitness", "mind", "vitality", "wealth", "charisma", "unknown-tag"}

\* Strings that are compared (start) are sequences of character codes.
StartOf(category) ==
    CASE category = "mind"     -> <<0, 7, 0, 0>>
      [] category = "fitness"  -> <<1, 2, 3, 0>>
      [] category = "vitality" -> <<1, 8, 0, 0>>
      [] category = "wealth"   -> <<9>>
      [] category = "charisma" -> <<1, 2, 3, 0>>
      [] OTHER                 -> <<>>

\* TaskCreate: status is a free string that defaults to "scheduled".
TaskCreate(title, start, end, category, status) ==
    [title |-> title, start |-> start, end |-> end, category |-> category, status |-> status]

\* The request bodies a caller submits: one block for every category with
\* the default status, and one with a status of the caller's own.
TaskCreates ==
    { TaskCreate("t", StartOf(c), "e", c, "scheduled") : c \in Categories }
    \cup { TaskCreate("t", StartOf("mind"), "e", "mind", "archived") }

RECURSIVE SeqsUpTo(_, _)
SeqsUpTo(S, n) ==
    IF n = 0 THEN { <<>> }
    ELSE LET shorter == SeqsUpTo(S, n - 1)
         IN  shorter \cup { Append(s, x) : s \in { t \in shorter : Len(t) = n - 1 }, x \in S }

Plans == SeqsUpTo(TaskCreates, MaxPlan)

\* The plans submitted while requests interleave: blocks of two different gains.
ConcPlans ==
    SeqsUpTo({ r \in TaskCreates : r.category \in {"fitness", "mind"} /\ r.status = "scheduled" },
             MaxPlan)

TaskIds == 0..(MaxTasks + 1)

StatusFilters == {None, "", "done"}

----------------------------------------------------------------------------
(* The document store *)

\* bson.ObjectId(s) for a well-formed s, and str() of it
ObjectId(s) == [oid |-> s]
str(object_id) == object_id.oid

\* collection.find_one({}): the position of the first document, 0 for None
find_one_any(coll) == IF Len(coll) = 0 THEN 0 ELSE 1

\* collection.find_one({"_id": oid}): the position of the document, 0 for None
find_one_by_id(coll, object_id) ==
    IF \E i \in 1..Len(coll) : coll[i]._id = object_id
    THEN CHOOSE i \in 1..Len(coll) : coll[i]._id = object_id
    ELSE 0

\* collection.update_one({"_id": oid}, {"$set": fields}): the first match, if any
update_one(coll, object_id, fields) ==
    LET i == find_one_by_id(coll, object_id)
    IN  IF i = 0 THEN coll ELSE [coll EXCEPT ![i] = fields @@ @]

\* the store assigns a fresh _id at insertion
NewId(coll) == ObjectId(Len(coll) + 1)

\* create_document(collection, data): insert the document as given
create_document(coll, data) == Append(coll, [_id |-> NewId(coll)] @@ data)

\* the id create_document returns
created_id(coll) == str(NewId(coll))

\* get_documents(collection, filter_q) with filter_q = {} or {"status": s}
get_documents(coll, filter_q) ==
    IF filter_q = None THEN coll
    ELSE SelectSeq(coll, LAMBDA d : d.status = filter_q)

----------------------------------------------------------------------------
(* Helpers of main.py *)

\* datetime.isoformat() of a UTC time
isoformat(t) == <<"iso", t>>

\* serialize_doc: "_id" becomes the string "id", datetimes become ISO strings
serialize_doc(doc) ==
    LET d == [k \in ((DOMAIN doc) \ {"_id"}) \cup {"id"} |->
                 IF k = "id" THEN str(doc._id) ELSE doc[k]]
    IN  IF "updated_at" \in DOMAIN d
        THEN [d EXCEPT !.updated_at = isoformat(@)]
        ELSE d

\* Variant of xp_map: the gain of "mind" mistyped
xp_mapTypo(category) ==
    CASE category = "fitness"  -> 20
      [] category = "mind"     -> 10
      [] category = "vitality" -> 10
      [] category = "wealth"   -> 15
      [] category = "charisma" -> 10
      [] OTHER                 -> 10

\* Variant of xp_map: xp_map.get(category, 0)
xp_mapNoDefault(category) ==
    CASE category = "fitness"  -> 20
      [] category = "mind"     -> 15
      [] category = "vitality" -> 10
      [] category = "wealth"   -> 15
      [] category = "charisma" -> 10
      [] OTHER                 -> 0

\* xp_map.get(category, 10)
xp_map(category) ==
    CASE category = "fitness"  -> 20
      [] category = "mind"     -> 15
      [] category = "vitality" -> 10
      [] category = "wealth"   -> 15
      [] category = "charisma" -> 10
      [] OTHER                 -> 10

\* Variant of xp_gain: a task that is already done earns nothing
xp_gainOnce(t) ==
    IF t.status = "done" THEN 0
    ELSE xp_map(IF "category" \in DOMAIN t THEN t.category ELSE "")

\* xp_gain = xp_map.get(task.get("category", ""), 10)
xp_gain(t) == xp_map(IF "category" \in DOMAIN t THEN t.category ELSE "")

\* Variant of LevelUp: while new_xp > 100
RECURSIVE LevelUpStrict(_, _)
LevelUpStrict(new_xp, new_level) ==
    IF new_xp > 100
    THEN LevelUpStrict(new_xp - 100, new_level + 1)
    ELSE [xp |-> new_xp, level |-> new_level]

\* Variant of LevelUp: new_level starts from 1 instead of the profile's level
LevelUpFromOne(new_xp, new_level) ==
    [xp |-> new_xp % 100, level |-> 1 + (new_xp \div 100)]

\* Variant of LevelUp: a level-up starts the new level at xp 0
LevelUpFromZero(new_xp, new_level) ==
    IF new_xp >= 100
    THEN [xp |-> 0, level |-> new_level + (new_xp \div 100)]
    ELSE [xp |-> new_xp, level |-> new_level]

\* while new_xp >= 100: new_level += 1; new_xp -= 100
RECURSIVE LevelUp(_, _)
LevelUp(new_xp, new_level) ==
    IF new_xp >= 100
    THEN LevelUp(new_xp - 100, new_level + 1)
    ELSE [xp |-> new_xp, level |-> new_level]

\* Variant of Award: the $set counts the completion in streak as well
AwardWithStreak(p, t, now) ==
    LET n == LevelUp(p.xp + xp_gain(t), p.level)
    IN  [xp |-> n.xp, level |-> n.level, streak |-> p.streak + 1, updated_at |-> now]

\* the $set that complete_task computes from the profile it read
Award(p, t, now) ==
    LET n == LevelUp(p.xp + xp_gain(t), p.level)
    IN  [xp |-> n.xp, level |-> n.level, updated_at |-> now]

\* Variant of MarkDone: the status is toggled
MarkToggled(coll, task_id, now) ==
    LET i == find_one_by_id(coll, ObjectId(task_id))
    IN  update_one(coll, ObjectId(task_id),
                   [status |-> IF i # 0 /\ coll[i].status = "done" THEN "scheduled" ELSE "done",
                    updated_at |-> now])

\* db["task"].update_one({"_id": ObjectId(task_id)}, {"$set": {"status": "done", ...}})
MarkDone(coll, task_id, now) ==
    update_one(coll, ObjectId(task_id), [status |-> "done", updated_at |-> now])

\* Variant of WriteAward: the award is applied to the stored profile in one
\* atomic read-modify-write
WriteAwardAtomic(coll, p, t, now) ==
    update_one(coll, p._id, Award(coll[find_one_by_id(coll, p._id)], t, now))

\* db["profile"].update_one({"_id": profile["_id"]}, {"$set": ...}): the values
\* written are those computed from the profile the handler read
WriteAward(coll, p, t, now) == update_one(coll, p._id, Award(p, t, now))

\* Variant of AwardOrSkip: a profile that is missing is created, then awarded
AwardOrCreate(coll, t, now) ==
    LET c == IF find_one_any(coll) = 0
             THEN create_document(coll, [level |-> 1, xp |-> 0, streak |-> 0])
             ELSE coll
    IN  WriteAward(c, c[find_one_any(c)], t, now)

\* profile = db["profile"].find_one({}); if profile: ... update_one(...)
AwardOrSkip(coll, t, now) ==
    IF find_one_any(coll) = 0 THEN coll
    ELSE WriteAward(coll, coll[find_one_any(coll)], t, now)

----------------------------------------------------------------------------
(* Replies *)

Reply(op, code, arg, body) == [op |-> op, code |-> code, arg |-> arg, body |-> body]

\* HTTPException(status_code=500, detail="Database not available")
Unavailable == [detail |-> "Database not available"]

\* an exception no handler catches: 500 Internal Server Error
InternalError == [detail |-> "Internal Server Error"]

\* HTTPException(status_code=404, detail="Task not found")
NotFound == [detail |-> "Task not found"]

\* Variant of DefaultProfile: levels counted from 0
DefaultProfileFromZero == [level |-> 0, xp |-> 0, streak |-> 0]

\* {"level": 1, "xp": 0, "streak": 0}
DefaultProfile == [level |-> 1, xp |-> 0, streak |-> 0]

----------------------------------------------------------------------------
(* The handlers, one request at a time *)

\* for t in plan: create_document("task", t.model_dump())
RECURSIVE InsertTasks(_, _)
InsertTasks(coll, plan) ==
    IF plan = <<>> THEN coll
    ELSE InsertTasks(create_document(coll, Head(plan)), Tail(plan))

\* Variant of EnsureProfile: no profile is created
EnsureProfileNever(coll) == coll

\* Variant of EnsureProfile: a profile is inserted whether or not one exists
EnsureProfileAlways(coll) == create_document(coll, DefaultProfile)

\* the profile collection after accept_onboarding's first block
EnsureProfile(coll) ==
    IF find_one_any(coll) = 0 THEN create_document(coll, DefaultProfile) ELSE coll

\* POST /api/onboarding/accept.  `if db`: the handle counts as true exactly
\* when it is not None.
accept_onboarding(plan) ==
    /\ Len(task) + Len(plan) <= MaxTasks
    /\ IF ~dbAvailable
       THEN \* profile is None, and create_document raises without a store
            /\ response' = Reply("accept", 500, plan, InternalError)
            /\ UNCHANGED <<profile, task, awarded>>
       ELSE LET found == find_one_any(profile)
                profile_id == IF found = 0 THEN created_id(profile)
                              ELSE str(profile[found]._id)
            IN  /\ profile' = EnsureProfile(profile)
                /\ task' = InsertTasks(task, plan)
                /\ UNCHANGED awarded
                /\ response' = Reply("accept", 200, plan,
                                     [ok |-> TRUE, profile_id |-> profile_id,
                                      created |-> Len(plan)])
    /\ UNCHANGED <<dbAvailable, reqs, nreq>>

\* rows.sort(key=lambda r: r.get("start", "")): lexicographic order of strings
RECURSIVE StrLess(_, _)
StrLess(a, b) ==
    IF b = <<>> THEN FALSE
    ELSE IF a = <<>> THEN TRUE
    ELSE IF Head(a) # Head(b) THEN Head(a) < Head(b)
    ELSE StrLess(Tail(a), Tail(b))

StartKey(r) == IF "start" \in DOMAIN r THEN r.start ELSE <<>>

\* Variant of SortByStart: the rows are left in the order the store returned them
SortByStartMissing(rows) == rows

\* list.sort is stable: insert each row after the rows that are not greater
RECURSIVE SortByStart(_)
SortByStart(rows) ==
    IF rows = <<>> THEN <<>>
    ELSE LET n == Len(rows)
             sorted == SortByStart(SubSeq(rows, 1, n - 1))
             r == rows[n]
             k == Cardinality({ i \in 1..Len(sorted) :
                                  ~StrLess(StartKey(r), StartKey(sorted[i])) })
         IN  SubSeq(sorted, 1, k) \o <<r>> \o SubSeq(sorted, k + 1, Len(sorted))

Get(d, k, default) == IF k \in DOMAIN d THEN d[k] ELSE default

TaskOut(sr) ==
    [id |-> sr.id,
     title |-> Get(sr, "title", ""),
     start |-> Get(sr, "start", <<>>),
     end |-> Get(sr, "end", ""),
     category |-> Get(sr, "category", "misc"),
     status |-> Get(sr, "status", "scheduled")]

\* GET /api/tasks
list_tasks(status) ==
    /\ IF ~dbAvailable
       THEN response' = Reply("list", 500, status, InternalError)
       ELSE LET filter_q == IF status # None /\ status # "" THEN status ELSE None
                rows == SortByStart(get_documents(task, filter_q))
            IN  response' = Reply("list", 200, status,
                                  [i \in 1..Len(rows) |-> TaskOut(serialize_doc(rows[i]))])
    /\ UNCHANGED <<dbAvailable, profile, task, awarded, reqs, nreq>>

\* POST /api/tasks/{task_id}/complete
complete_task(task_id, now) ==
    /\ IF ~dbAvailable
       THEN /\ response' = Reply("complete", 500, task_id, Unavailable)
            /\ UNCHANGED <<profile, task, awarded>>
       ELSE IF ~ObjectIdValid(task_id)
       THEN \* ObjectId(task_id) raises bson.errors.InvalidId
            /\ response' = Reply("complete", 500, task_id, InternalError)
            /\ UNCHANGED <<profile, task, awarded>>
       ELSE IF find_one_by_id(task, ObjectId(task_id)) = 0
       THEN /\ response' = Reply("complete", 404, task_id, NotFound)
            /\ UNCHANGED <<profile, task, awarded>>
       ELSE LET t == task[find_one_by_id(task, ObjectId(task_id))]
                found == find_one_any(profile)
            IN  /\ task' = MarkDone(task, task_id, now)
                /\ profile' = AwardOrSkip(profile, t, now)
                /\ IF found = 0
                   THEN UNCHANGED awarded
                   ELSE /\ Award(profile[found], t, now).level <= MaxLevel
                        /\ awarded' = awarded + xp_gain(t)
                /\ response' = Reply("complete", 200, task_id,
                                     [ok |-> TRUE, xp_gain |-> xp_gain(t)])
    /\ UNCHANGED <<dbAvailable, reqs, nreq>>

\* Variant of get_profile: a profile that is missing is created on the way
get_profileCreating ==
    /\ IF ~dbAvailable
       THEN /\ response' = Reply("profile", 500, None, Unavailable)
            /\ UNCHANGED profile
       ELSE /\ profile' = EnsureProfile(profile)
            /\ LET p == serialize_doc(EnsureProfile(profile)[1])
               IN  response' = Reply("profile", 200, None,
                                     [level |-> Get(p, "level", 1), xp |-> Get(p, "xp", 0),
                                      streak |-> Get(p, "streak", 0)])
    /\ UNCHANGED <<dbAvailable, task, awarded, reqs, nreq>>

\* GET /api/profile
get_profile ==
    /\ IF ~dbAvailable
       THEN response' = Reply("profile", 500, None, Unavailable)
       ELSE IF find_one_any(profile) = 0
       THEN response' = Reply("profile", 200, None, DefaultProfile)
       ELSE LET p == serialize_doc(profile[find_one_any(profile)])
            IN  response' = Reply("profile", 200, None,
                                  [level |-> Get(p, "level", 1), xp |-> Get(p, "xp", 0),
                                   streak |-> Get(p, "streak", 0)])
    /\ UNCHANGED <<dbAvailable, profile, task, awarded, reqs, nreq>>

NoReply == Reply("none", 0, None, None)

Idle == [pc |-> "idle"]

Procs == {1, 2}

Init ==
    /\ dbAvailable \in BOOLEAN
    /\ profile = <<>>
    /\ task = <<>>
    /\ response = NoReply
    /\ awarded = 0
    /\ reqs = [p \in Procs |-> Idle]
    /\ nreq = 0

Next ==
    \/ \E plan \in Plans : accept_onboarding(plan)
    \/ \E status \in StatusFilters : list_tasks(status)
    \/ \E task_id \in TaskIds, now \in Times : complete_task(task_id, now)
    \/ get_profile

Spec == Init /\ [][Next]_vars

----------------------------------------------------------------------------
(* The handlers, one store call at a time: requests of two workers interleave *)

Free(p) == reqs[p].pc \in {"idle", "done"}

Done(op, reply, locals) == [pc |-> "done", op |-> op, reply |-> reply] @@ locals

Begin(p) ==
    /\ Free(p)
    /\ nreq < MaxConcRequests
    /\ nreq' = nreq + 1

\* complete_task up to db["task"].find_one
c_find_task(p, task_id) ==
    /\ Begin(p)
    /\ reqs' = [reqs EXCEPT ![p] =
         IF ~dbAvailable
         THEN Done("complete", Reply("complete", 500, task_id, Unavailable), << >>)
         ELSE IF ~ObjectIdValid(task_id)
         THEN Done("complete", Reply("complete", 500, task_id, InternalError), << >>)
         ELSE IF find_one_by_id(task, ObjectId(task_id)) = 0
         THEN Done("complete", Reply("complete", 404, task_id, NotFound), << >>)
         ELSE [pc |-> "update_task", op |-> "complete", task_id |-> task_id,
               t |-> task[find_one_by_id(task, ObjectId(task_id))]]]
    /\ UNCHANGED <<dbAvailable, profile, task, response, awarded>>

\* db["task"].update_one
c_update_task(p, now) ==
    /\ reqs[p].pc = "update_task"
    /\ task' = MarkDone(task, reqs[p].task_id, now)
    /\ reqs' = [reqs EXCEPT ![p].pc = "find_profile"]
    /\ UNCHANGED <<dbAvailable, profile, response, awarded, nreq>>

\* db["profile"].find_one({}), and the return when there is no profile
c_find_profile(p) ==
    /\ reqs[p].pc = "find_profile"
    /\ reqs' = [reqs EXCEPT ![p] =
         IF find_one_any(profile) = 0
         THEN Done("complete",
                   Reply("complete", 200, reqs[p].task_id,
                         [ok |-> TRUE, xp_gain |-> xp_gain(reqs[p].t)]),
                   [task_id |-> reqs[p].task_id, t |-> reqs[p].t, found |-> FALSE])
         ELSE [pc |-> "update_profile", profile |-> profile[find_one_any(profile)]] @@ @]
    /\ UNCHANGED <<dbAvailable, profile, task, response, awarded, nreq>>

\* db["profile"].update_one, and the return
c_update_profile(p, now) ==
    /\ reqs[p].pc = "update_profile"
    /\ profile' = WriteAward(profile, reqs[p].profile, reqs[p].t, now)
    /\ awarded' = awarded + xp_gain(reqs[p].t)
    /\ reqs' = [reqs EXCEPT ![p] =
         Done("complete",
              Reply("complete", 200, reqs[p].task_id,
                    [ok |-> TRUE, xp_gain |-> xp_gain(reqs[p].t)]),
              [task_id |-> reqs[p].task_id, t |-> reqs[p].t, found |-> TRUE,
               profile |-> reqs[p].profile])]
    /\ UNCHANGED <<dbAvailable, task, response, nreq>>

\* accept_onboarding up to db["profile"].find_one({})
a_find_profile(p, plan) ==
    /\ Begin(p)
    /\ Len(task) + Len(plan) <= MaxTasks
    /\ reqs' = [reqs EXCEPT ![p] =
         IF ~dbAvailable
         THEN Done("accept", Reply("accept", 500, plan, InternalError), << >>)
         ELSE IF find_one_any(profile) = 0
         THEN [pc |-> "create_profile", op |-> "accept", plan |-> plan, todo |-> plan]
         ELSE [pc |-> "insert_task", op |-> "accept", plan |-> plan, todo |-> plan,
               profile_id |-> str(profile[find_one_any(profile)]._id)]]
    /\ UNCHANGED <<dbAvailable, profile, task, response, awarded>>

\* Variant of a_create_profile: the insert is skipped when a profile has
\* appeared since the lookup
a_create_profileChecked(p) ==
    /\ reqs[p].pc = "create_profile"
    /\ profile' = EnsureProfile(profile)
    /\ reqs' = [reqs EXCEPT ![p] =
         [pc |-> "insert_task", profile_id |-> str(EnsureProfile(profile)[1]._id)] @@ @]
    /\ UNCHANGED <<dbAvailable, task, response, awarded, nreq>>

\* Variant of a_create_profile: the tasks are inserted without a profile
a_create_profileSkipped(p) ==
    /\ reqs[p].pc = "create_profile"
    /\ reqs' = [reqs EXCEPT ![p] = [pc |-> "insert_task", profile_id |-> None] @@ @]
    /\ UNCHANGED <<dbAvailable, profile, task, response, awarded, nreq>>

\* create_document("profile", ...)
a_create_profile(p) ==
    /\ reqs[p].pc = "create_profile"
    /\ profile' = create_document(profile, DefaultProfile)
    /\ reqs' = [reqs EXCEPT ![p] =
         [pc |-> "insert_task", profile_id |-> created_id(profile)] @@ @]
    /\ UNCHANGED <<dbAvailable, task, response, awarded, nreq>>

\* one iteration of the loop: create_document("task", doc)
a_insert_task(p) ==
    /\ reqs[p].pc = "insert_task"
    /\ reqs[p].todo # <<>>
    /\ task' = create_document(task, Head(reqs[p].todo))
    /\ reqs' = [reqs EXCEPT ![p].todo = Tail(@)]
    /\ UNCHANGED <<dbAvailable, profile, response, awarded, nreq>>

\* the return after the loop
a_return(p) ==
    /\ reqs[p].pc = "insert_task"
    /\ reqs[p].todo = <<>>
    /\ reqs' = [reqs EXCEPT ![p] =
         Done("accept",
              Reply("accept", 200, reqs[p].plan,
                    [ok |-> TRUE, profile_id |-> reqs[p].profile_id,
                     created |-> Len(reqs[p].plan)]),
              << >>)]
    /\ UNCHANGED <<dbAvailable, profile, task, response, awarded, nreq>>

NextConc ==
    \/ \E p \in Procs, task_id \in TaskIds : c_find_task(p, task_id)
    \/ \E p \in Procs, now \in Times : c_update_task(p, now)
    \/ \E p \in Procs : c_find_profile(p)
    \/ \E p \in Procs, now \in Times : c_update_profile(p, now)
    \/ \E p \in Procs, plan \in ConcPlans : a_find_profile(p, plan)
    \/ \E p \in Procs : a_create_profile(p)
    \/ \E p \in Procs : a_insert_task(p)
    \/ \E p \in Procs : a_return(p)

SpecConc == Init /\ [][NextConc]_vars

----------------------------------------------------------------------------
(* The schedule proposer, beside the request that stores what it proposed *)

\* Strings that are searched (energy_pattern) are sequences of characters.
LowEvening == <<"l", "o", "w", "-", "e", "v", "e", "n", "i", "n", "g">>
MorningPerson == <<"m", "o", "r", "n", "i", "n", "g", "-", "p", "e", "r", "s", "o", "n">>
SlowRiser == <<"s", "l", "o", "w", "-", "r", "i", "s", "e", "r">>
CapitalLow == <<"L", "o", "w", "-", "e", "v", "e", "n", "i", "n", "g">>

\* None among the strings written as sequences of characters
NoneChars == <<None>>

\* energy_pattern: Optional[str], "low-evening" when the field is left out
EnergyPatterns == {NoneChars, <<>>, LowEvening, MorningPerson, SlowRiser, CapitalLow}

\* OnboardingInput
OnboardingInput(goals, blocker, work_hours, energy_pattern) ==
    [goals |-> goals, blocker |-> blocker, work_hours |-> work_hours,
     energy_pattern |-> energy_pattern]

OnboardingInputs ==
    { OnboardingInput(g, "time", w, e) :
        g \in {<<"run">>, <<"run", "code">>}, w \in {"9-6", None}, e \in EnergyPatterns }

\* datetime.now().date(), as a day number
Days == {1, 2}

\* sub in s, for Python strings
Contains(s, sub) ==
    \E i \in 0..(Len(s) - Len(sub)) : SubSeq(s, i + 1, i + Len(sub)) = sub

\* Variant of LearningHour: the pattern is tested with startswith
LearningHourPrefix(energy_pattern) ==
    LET s == IF energy_pattern = NoneChars THEN <<>> ELSE energy_pattern
    IN  IF Len(s) >= 3 /\ SubSeq(s, 1, 3) = <<"l", "o", "w">> THEN 7 ELSE 19

\* if "low" in (data.energy_pattern or ""): 7 else: 19
LearningHour(energy_pattern) ==
    LET s == IF energy_pattern = NoneChars THEN <<>> ELSE energy_pattern
    IN  IF Contains(s, <<"l", "o", "w">>) THEN 7 ELSE 19

\* a naive datetime: the day and the minute of the day
DateTime(day, minute) == [day |-> day, minute |-> minute]

\* datetime + timedelta(minutes=m)
PlusMinutes(dt, m) ==
    DateTime(dt.day + ((dt.minute + m) \div 1440), (dt.minute + m) % 1440)

\* iso(day_offset, hour, minute, duration_min)
iso(today, day_offset, hour, minute, duration_min) ==
    LET start_dt == DateTime(today + day_offset, 60 * hour + minute)
        end_dt == PlusMinutes(start_dt, duration_min)
    IN  [start |-> isoformat(start_dt), end |-> isoformat(end_dt)]

ProposedBlock(title, se, category) ==
    [title |-> title, start |-> se.start, end |-> se.end, category |-> category]

\* POST /api/onboarding/propose
propose_onboarding(data, today) ==
    /\ LET blocks ==
               << ProposedBlock("Python Micro-Learning",
                                iso(today, 0, LearningHour(data.energy_pattern), 0, 25), "mind"),
                  ProposedBlock("Zone 2 Run", iso(today, 0, 12, 30, 40), "fitness"),
                  ProposedBlock("Meal Prep", iso(today, 0, 18, 0, 45), "vitality") >>
       IN  response' = Reply("propose", 200, [data |-> data, today |-> today],
                             [protocol_name |-> "Base Protocol", blocks |-> blocks,
                              message |-> "Here is your new Base Protocol. Accept to generate your schedule and start earning XP."])
    /\ UNCHANGED <<dbAvailable, profile, task, awarded, reqs, nreq>>

NextOnboarding ==
    \/ \E data \in OnboardingInputs, today \in Days : propose_onboarding(data, today)
    \/ \E plan \in Plans : accept_onboarding(plan)

SpecOnboarding == Init /\ [][NextOnboarding]_vars

----------------------------------------------------------------------------
(* A store that holds tasks and no profile *)

\* The store outlives the process and is not the API's alone: its profile
\* collection can be empty (dropped, or never written) while tasks are stored.
InitNoProfile ==
    /\ dbAvailable = TRUE
    /\ profile = <<>>
    /\ task \in { InsertTasks(<<>>, plan) : plan \in Plans \ { <<>> } }
    /\ response = NoReply
    /\ awarded = 0
    /\ reqs = [p \in Procs |-> Idle]
    /\ nreq = 0

NextNoProfile ==
    \/ \E status \in StatusFilters : list_tasks(status)
    \/ \E task_id \in TaskIds, now \in Times : complete_task(task_id, now)
    \/ get_profile

SpecNoProfile == InitNoProfile /\ [][NextNoProfile]_vars

----------------------------------------------------------------------------
(* Properties *)

\* The XP table as the design states it; anything else earns 10.
TableCategories == {"mind", "fitness", "vitality", "wealth", "charisma"}

TableGain(category) ==
    CASE category = "mind"     -> 15
      [] category = "fitness"  -> 20
      [] category = "vitality" -> 10
      [] category = "wealth"   -> 15
      [] category = "charisma" -> 10
      [] OTHER                 -> 10

\* the XP a profile has accumulated over its levels
Accumulated(p) == 100 * (p.level - 1) + p.xp

\* the position in coll of the task a request names, 0 if it names none
TaskAt(coll, task_id) ==
    IF ObjectIdValid(task_id) THEN find_one_by_id(coll, ObjectId(task_id)) ELSE 0

\* a step of Spec that serves a complete-task request with reply 200
CompletedStep == response'.op = "complete" /\ response'.code = 200

\* C1: one request at a time from an empty store, every profile document
\* has 0 <= xp < 100 and level >= 1.
C1_XpInRange ==
    \A i \in 1..Len(profile) :
        /\ 0 <= profile[i].xp
        /\ profile[i].xp < 100
        /\ profile[i].level >= 1

\* a completion has just carried the profile from below 100 XP to exactly
\* the threshold, which rolled over into level 2 with xp 0
C1_RolledOver ==
    /\ response.op = "complete"
    /\ response.code = 200
    /\ Len(profile) = 1
    /\ profile[1].level = 2
    /\ profile[1].xp = 0

\* C2: no step takes a profile from level L to a lower level (and no
\* profile disappears).
C2_LevelMonotone ==
    [][\A i \in 1..Len(profile) :
          /\ i <= Len(profile')
          /\ profile'[i]._id = profile[i]._id
          /\ profile'[i].level >= profile[i].level]_vars

\* a profile that has levelled up has been awarded again without a level-up
C2_AwardedAtLevelTwo ==
    /\ response.op = "complete"
    /\ response.code = 200
    /\ Len(profile) = 1
    /\ profile[1].level = 2
    /\ profile[1].xp > response.body.xp_gain

\* worker p has finished a complete-task request that replied ok and read a profile
Completed(p) ==
    /\ reqs[p].pc = "done"
    /\ reqs[p].op = "complete"
    /\ reqs[p].reply.code = 200
    /\ reqs[p].reply.body.ok
    /\ reqs[p].reply.body.xp_gain = TableGain(reqs[p].t.category)
    /\ reqs[p].found

\* both workers completed different tasks, and both read the profile before
\* either wrote it
Raced(p, q) ==
    /\ p # q
    /\ Completed(p)
    /\ Completed(q)
    /\ reqs[p].task_id # reqs[q].task_id
    /\ reqs[p].profile = reqs[q].profile

\* C3: when two complete-task requests for different tasks interleave their
\* profile read and write, the profile's accumulated XP has grown by only one
\* of the two gains they replied.
C3_LostUpdate ==
    \A p, q \in Procs :
        Raced(p, q) =>
            Accumulated(profile[1]) - Accumulated(reqs[p].profile)
                \in {reqs[p].reply.body.xp_gain, reqs[q].reply.body.xp_gain}

\* two requests replied ok with gains 20 and 15, the profile kept only one
C3_UpdateLost ==
    \E p, q \in Procs :
        /\ Raced(p, q)
        /\ reqs[p].reply.body.xp_gain = 20
        /\ reqs[q].reply.body.xp_gain = 15
        /\ awarded = Accumulated(reqs[p].profile) + 35
        /\ Accumulated(profile[1]) < awarded

\* C4: a task whose status is done keeps status done in every later step.
C4_DoneStaysDone ==
    [][\A i \in 1..Len(task) :
          task[i].status = "done" =>
              /\ i <= Len(task')
              /\ task'[i]._id = task[i]._id
              /\ task'[i].status = "done"]_vars

\* a task was completed, and completed again, and is done
C4_CompletedTwice ==
    /\ response.op = "complete"
    /\ response.code = 200
    /\ Len(profile) = 1
    /\ TaskAt(task, response.arg) # 0
    /\ task[TaskAt(task, response.arg)].status = "done"
    /\ task[TaskAt(task, response.arg)].category = "vitality"
    /\ Accumulated(profile[1]) = 20
    /\ \A i \in 1..Len(task) : i # TaskAt(task, response.arg) => task[i].status # "done"

\* C5: every stored task has status scheduled or done, and a task that
\* accept-plan stored and nothing completed yet has status scheduled.
C5_StatusEnum ==
    \A i \in 1..Len(task) :
        /\ task[i].status \in {"scheduled", "done"}
        /\ "updated_at" \notin DOMAIN task[i] => task[i].status = "scheduled"

\* C6: completing an id that identifies no stored task replies 404 and
\* leaves the profile and every task as they were.
C6_UnknownIdNotFound ==
    [][(dbAvailable /\ response'.op = "complete" /\ TaskAt(task, response'.arg) = 0) =>
          /\ response'.code = 404
          /\ profile' = profile
          /\ task' = task]_vars

\* C7: completing a task of a table category with gain g takes a profile
\* with xp in [0,100) and level L to xp = (xp+g) mod 100 and
\* level = L + (xp+g) div 100; fitness from xp 90, level 3 gives xp 10, level 4.
C7_XpAward ==
    [][/\ Award([xp |-> 90, level |-> 3], [category |-> "fitness"], 1).xp = 10
       /\ Award([xp |-> 90, level |-> 3], [category |-> "fitness"], 1).level = 4
       /\ (/\ CompletedStep
           /\ Len(profile) >= 1
           /\ task[TaskAt(task, response'.arg)].category \in TableCategories) =>
              LET g == TableGain(task[TaskAt(task, response'.arg)].category)
                  p == profile[1]
              IN  /\ p.xp \in 0..99
                  /\ response'.body.xp_gain = g
                  /\ profile'[1].xp = (p.xp + g) % 100
                  /\ profile'[1].level = p.level + ((p.xp + g) \div 100)
                  /\ Len(profile') = Len(profile)]_vars

\* a mind task (gain 15) was completed from xp 90 and the profile levelled up
C7_MindLevelsUp ==
    /\ response.op = "complete"
    /\ response.code = 200
    /\ response.body.xp_gain = 15
    /\ task[TaskAt(task, response.arg)].category = "mind"
    /\ Len(profile) = 1
    /\ profile[1].xp = 5
    /\ profile[1].level = 2

\* C8: completing a task whose category is not in the table raises the
\* profile's accumulated XP by exactly 10, whatever the profile held.
C8_UnknownCategory ==
    [][(/\ CompletedStep
        /\ Len(profile) >= 1
        /\ task[TaskAt(task, response'.arg)].category \notin TableCategories) =>
           /\ response'.body.xp_gain = 10
           /\ Accumulated(profile'[1]) = Accumulated(profile[1]) + 10]_vars

\* a task tagged "unknown-tag" was completed on a profile that had XP already
C8_UnknownTagCompleted ==
    /\ response.op = "complete"
    /\ response.code = 200
    /\ task[TaskAt(task, response.arg)].category = "unknown-tag"
    /\ Len(profile) = 1
    /\ Accumulated(profile[1]) = 105

\* C9: completing a task that is already done succeeds, awards the
\* category's XP again and leaves the task done.
C9_NotIdempotent ==
    [][(/\ dbAvailable
        /\ response'.op = "complete"
        /\ TaskAt(task, response'.arg) # 0
        /\ task[TaskAt(task, response'.arg)].status = "done") =>
           LET i == TaskAt(task, response'.arg)
               g == TableGain(task[i].category)
           IN  /\ response'.code = 200
               /\ response'.body.xp_gain = g
               /\ task'[i].status = "done"
               /\ Len(profile) >= 1 =>
                      Accumulated(profile'[1]) = Accumulated(profile[1]) + g]_vars

\* the only task stored, a fitness block, has been completed twice: 40 XP
C9_AwardedTwice ==
    /\ response.op = "complete"
    /\ response.code = 200
    /\ Len(task) = 1
    /\ task[1].category = "fitness"
    /\ task[1].status = "done"
    /\ Len(profile) = 1
    /\ Accumulated(profile[1]) = 40
    /\ awarded = 40

\* the document accept-plan stores for a task-creation record
Stored(doc, r) ==
    /\ doc.title = r.title
    /\ doc.start = r.start
    /\ doc.end = r.end
    /\ doc.category = r.category
    /\ doc.status = r.status

\* C10: accept-plan with n records ends with a profile (created as level 1,
\* xp 0, streak 0 if there was none, otherwise left as it was), exactly n
\* tasks added, and created = n; so too for n = 0.
C10_AcceptPlan ==
    [][(dbAvailable /\ response'.op = "accept") =>
          LET plan == response'.arg
              n == Len(plan)
          IN  /\ response'.code = 200
              /\ response'.body.created = n
              /\ Len(profile') >= 1
              /\ response'.body.profile_id = str(profile'[1]._id)
              /\ Len(profile) = 0 =>
                     /\ Len(profile') = 1
                     /\ profile'[1].level = 1
                     /\ profile'[1].xp = 0
                     /\ profile'[1].streak = 0
              /\ Len(profile) >= 1 => profile' = profile
              /\ Len(task') = Len(task) + n
              /\ SubSeq(task', 1, Len(task)) = task
              /\ \A k \in 1..n : Stored(task'[Len(task) + k], plan[k])]_vars

\* an empty plan was accepted on an empty store: a profile and no task
C10_EmptyPlanCreatesProfile ==
    /\ response.op = "accept"
    /\ response.code = 200
    /\ response.arg = <<>>
    /\ response.body.created = 0
    /\ Len(task) = 0
    /\ Len(profile) = 1
    /\ profile[1].level = 1
    /\ profile[1].xp = 0
    /\ profile[1].streak = 0

\* C11: one request at a time, at most one profile document exists, and
\* accept-plan inserts none when one exists.
C11_SingletonProfile ==
    /\ Len(profile) <= 1
    /\ (response.op = "accept" /\ response.code = 200) =>
           /\ Len(profile) = 1
           /\ response.body.profile_id = str(profile[1]._id)

\* accept-plan has run on a store that already held a profile and a task
C11_AcceptedAgain ==
    /\ response.op = "accept"
    /\ response.code = 200
    /\ response.body.created = 1
    /\ Len(task) = 2
    /\ Len(profile) = 1
    /\ Accumulated(profile[1]) > 0

\* C12 as stated: whichever of accept-plan, a successful complete-task or
\* get-profile finds no profile creates one with level 1, xp 0, streak 0.
C12_EveryCallCreates ==
    [][(/\ dbAvailable
        /\ Len(profile) = 0
        /\ \/ response'.op = "accept"
           \/ response'.op = "profile"
           \/ CompletedStep) =>
           /\ Len(profile') = 1
           /\ profile'[1].level = 1
           /\ profile'[1].xp = 0
           /\ profile'[1].streak = 0]_vars

\* C12, amended: accept-plan alone creates the profile; when it finds none it
\* creates one with level 1, xp 0, streak 0, so a profile exists after every
\* accept-plan, and no other request adds a profile document.
C12_AcceptCreatesLazily ==
    [][/\ (dbAvailable /\ response'.op = "accept" /\ Len(profile) = 0) =>
              /\ Len(profile') = 1
              /\ DOMAIN profile'[1] = {"_id", "level", "xp", "streak"}
              /\ profile'[1].level = 1
              /\ profile'[1].xp = 0
              /\ profile'[1].streak = 0
       /\ response'.op # "accept" => Len(profile') = Len(profile)]_vars

\* the first accept-plan, with two blocks, has created the profile
C12_FirstAcceptCreated ==
    /\ response.op = "accept"
    /\ response.code = 200
    /\ response.body.created = 2
    /\ Len(task) = 2
    /\ Len(profile) = 1
    /\ "updated_at" \notin DOMAIN profile[1]
    /\ profile[1].level = 1

\* C13: get-profile replies the stored profile's level, xp and streak, or
\* level 1, xp 0, streak 0 when there is no profile, and leaves the profile
\* and task collections as they were.
C13_GetProfile ==
    [][(dbAvailable /\ response'.op = "profile") =>
          /\ response'.code = 200
          /\ response'.body =
                 IF Len(profile) = 0
                 THEN [level |-> 1, xp |-> 0, streak |-> 0]
                 ELSE [level |-> profile[1].level, xp |-> profile[1].xp,
                       streak |-> profile[1].streak]
          /\ profile' = profile
          /\ task' = task]_vars

\* get-profile on the empty store replied the defaults and stored nothing
C13_DefaultsWithoutProfile ==
    /\ dbAvailable
    /\ response.op = "profile"
    /\ response.code = 200
    /\ response.body = [level |-> 1, xp |-> 0, streak |-> 0]
    /\ Len(profile) = 0
    /\ Len(task) = 0

\* a block of the given minutes of the day, as propose replies it
BlockAt(title, category, day, from, to) ==
    [title |-> title, category |-> category,
     start |-> <<"iso", [day |-> day, minute |-> from]>>,
     end |-> <<"iso", [day |-> day, minute |-> to]>>]

\* the pattern is present and has "low" somewhere in it
HasLow(e) ==
    /\ e # NoneChars
    /\ \E i \in 1..Len(e) : i + 2 <= Len(e) /\ e[i] = "l" /\ e[i + 1] = "o" /\ e[i + 2] = "w"

\* C14: propose replies three blocks, mind, fitness, vitality, that depend
\* only on today's date and on whether energy_pattern contains "low": learning
\* 07:00-07:25 if it does and 19:00-19:25 otherwise (an absent pattern too),
\* the run 12:30-13:10, the meal prep 18:00-18:45; the store is not touched.
C14_Propose ==
    [][response'.op = "propose" =>
          LET day == response'.arg.today
              e == response'.arg.data.energy_pattern
              learn == IF HasLow(e) THEN 7 * 60 ELSE 19 * 60
          IN  /\ response'.code = 200
              /\ response'.body.protocol_name = "Base Protocol"
              /\ response'.body.blocks =
                     << BlockAt("Python Micro-Learning", "mind", day, learn, learn + 25),
                        BlockAt("Zone 2 Run", "fitness", day, 12 * 60 + 30, 13 * 60 + 10),
                        BlockAt("Meal Prep", "vitality", day, 18 * 60, 18 * 60 + 45) >>
              /\ profile' = profile
              /\ task' = task]_vars

\* with a profile and two tasks stored, a pattern with "low" inside a word
\* got the morning slot
C14_SlowRiserAtSeven ==
    /\ response.op = "propose"
    /\ response.arg.data.energy_pattern = SlowRiser
    /\ response.arg.today = 2
    /\ response.body.blocks[1].start = <<"iso", [day |-> 2, minute |-> 420]>>
    /\ Len(task) = 2
    /\ Len(profile) = 1

\* the positions of the stored tasks a status filter selects; None and the
\* empty string select every task
Selected(status) ==
    { i \in 1..Len(task) : status \in {None, ""} \/ task[i].status = status }

\* C15: list-tasks replies exactly the stored tasks its status filter selects
\* (all of them without a filter), in ascending order of start whatever the
\* order of insertion, and leaves the store as it was.
C15_ListTasks ==
    [][(dbAvailable /\ response'.op = "list") =>
          LET body == response'.body
              want == Selected(response'.arg)
          IN  /\ response'.code = 200
              /\ Len(body) = Cardinality(want)
              /\ { body[k].id : k \in 1..Len(body) } = { str(task[i]._id) : i \in want }
              /\ \A k \in 1..Len(body) :
                     LET d == task[TaskAt(task, body[k].id)]
                     IN  body[k] = [id |-> str(d._id), title |-> d.title, start |-> d.start,
                                    end |-> d.end, category |-> d.category,
                                    status |-> d.status]
              /\ \A k, l \in 1..Len(body) : k < l => ~StrLess(body[l].start, body[k].start)
              /\ profile' = profile
              /\ task' = task]_vars

\* the task inserted second starts earlier and is listed first
C15_ListedOutOfInsertionOrder ==
    /\ response.op = "list"
    /\ response.code = 200
    /\ response.arg = None
    /\ Len(response.body) = 2
    /\ response.body[1].id = 2
    /\ response.body[2].id = 1
    /\ StrLess(task[2].start, task[1].start)

\* C16: complete-task on a stored task while no profile exists sets the task
\* done and replies the category's xp_gain, and creates or modifies no profile.
C16_AwardSkipped ==
    [][(CompletedStep /\ Len(profile) = 0) =>
          LET i == TaskAt(task, response'.arg)
          IN  /\ i # 0
              /\ task'[i].status = "done"
              /\ response'.body = [ok |-> TRUE, xp_gain |-> TableGain(task[i].category)]
              /\ profile' = <<>>]_vars

\* a fitness task was completed with no profile: xp_gain 20 replied, none kept
C16_GainRepliedNotKept ==
    /\ response.op = "complete"
    /\ response.code = 200
    /\ response.body.xp_gain = 20
    /\ task[TaskAt(task, response.arg)].status = "done"
    /\ task[TaskAt(task, response.arg)].category = "fitness"
    /\ Len(profile) = 0
    /\ awarded = 0

\* worker p has finished an accept-plan request that replied ok
Accepted(p) ==
    /\ reqs[p].pc = "done"
    /\ reqs[p].op = "accept"
    /\ reqs[p].reply.code = 200

\* C17: an accept-plan that found no profile at its lookup inserts one
\* without looking again, so two accept-plans that both looked up before
\* either inserted leave two profile documents.
C17_InsertsWithoutLookingAgain ==
    [][\A p \in Procs :
          (reqs[p].pc = "create_profile" /\ reqs'[p].pc # "create_profile") =>
              /\ Len(profile') = Len(profile) + 1
              /\ SubSeq(profile', 1, Len(profile)) = profile
              /\ reqs'[p].profile_id = str(profile'[Len(profile')]._id)]_vars

\* both workers' accept-plans replied ok, each with the id of the profile it
\* created, and the store holds the two profiles
C17_TwoProfiles ==
    /\ \A p \in Procs : Accepted(p)
    /\ reqs[1].reply.body.profile_id # reqs[2].reply.body.profile_id
    /\ Len(profile) = 2
    /\ profile[1]._id # profile[2]._id

\* document d1 is d0 except, at most, in the fields named
SameExcept(d0, d1, fields) ==
    /\ DOMAIN d1 \subseteq (DOMAIN d0) \cup fields
    /\ \A f \in (DOMAIN d0) \ fields : f \in DOMAIN d1 /\ d1[f] = d0[f]

\* C18: a successful complete-task changes only the status and updated_at of
\* the task it names and the xp, level and updated_at of the profile; every
\* other task and field is as before, and streak is 0 in every state.
C18_CompleteFrame ==
    [][/\ \A j \in 1..Len(profile') : profile'[j].streak = 0
       /\ CompletedStep =>
              LET i == TaskAt(task, response'.arg)
              IN  /\ Len(task') = Len(task)
                  /\ \A j \in 1..Len(task) : j # i => task'[j] = task[j]
                  /\ SameExcept(task[i], task'[i], {"status", "updated_at"})
                  /\ Len(profile') = Len(profile)
                  /\ \A j \in 1..Len(profile) :
                         SameExcept(profile[j], profile'[j], {"xp", "level", "updated_at"})]_vars

\* of two stored tasks the mind block was completed, the other is untouched
C18_OneOfTwoCompleted ==
    /\ response.op = "complete"
    /\ response.code = 200
    /\ response.arg = 2
    /\ Len(task) = 2
    /\ task[2].status = "done"
    /\ task[2].category = "mind"
    /\ "updated_at" \notin DOMAIN task[1]
    /\ task[1].status = "scheduled"
    /\ Len(profile) = 1
    /\ profile[1].xp = 15
    /\ profile[1].streak = 0

\* C19: one request at a time from an empty store, the profile's accumulated
\* XP, 100*(level-1)+xp, is the sum of the xp_gain replied by the successful
\* complete-task requests since the profile was created.
C19_XpConserved ==
    /\ Len(profile) = 0 => awarded = 0
    /\ \A i \in 1..Len(profile) : Accumulated(profile[i]) = awarded
    /\ (response.op = "complete" /\ response.code = 200) =>
           /\ Len(profile) >= 1
           /\ response.body.xp_gain <= awarded

\* gains summing to 115 were replied, and the profile is at level 2, xp 15
C19_CarriedOverLevelUp ==
    /\ response.op = "complete"
    /\ response.code = 200
    /\ awarded = 115
    /\ Len(profile) = 1
    /\ profile[1].level = 2
    /\ profile[1].xp = 15

\* C20: from an empty store, a non-empty task collection comes with a
\* profile, since accept-plan ensures the profile before it inserts a task and
\* nothing deletes one; so a complete-task that found its task finds a profile.
C20_TasksImplyProfile ==
    /\ Len(task) > 0 => Len(profile) >= 1
    /\ (response.op = "complete" /\ response.code = 200) => Len(profile) >= 1
    /\ \A p \in Procs :
           /\ reqs[p].pc \in {"update_task", "find_profile", "update_profile"} =>
                  Len(profile) >= 1
           /\ (/\ reqs[p].pc = "done"
               /\ reqs[p].op = "complete"
               /\ reqs[p].reply.code = 200) => reqs[p].found

\* one worker is between two inserts of its plan while the other has
\* completed the task already inserted, and found the profile
C20_CompletedDuringAccept ==
    \E p, q \in Procs :
        /\ reqs[p].pc = "insert_task"
        /\ Len(reqs[p].todo) = 1
        /\ Len(task) = 1
        /\ reqs[q].pc = "done"
        /\ reqs[q].op = "complete"
        /\ reqs[q].reply.code = 200
        /\ reqs[q].found
        /\ Len(profile) = 1

====
